---- MODULE Spec2Model ----
(***************************************************************************)
(* A model of the C bridge between oxigraph and the RocksDB engine         *)
(* (oxrocksdb-sys/api/c.cc, c.h and the older rocksdb-sys/api/c.cc).       *)
(*                                                                         *)
(* The bridge functions are operators that take the outcome of the one     *)
(* engine operation they forward to and the caller's status record, and    *)
(* yield what the function writes and returns.  Each specification below   *)
(* drives them from one side of the bridge:                                *)
(*   Spec         the status-record convention (SaveStatus, pinned reads)  *)
(*   SpecOptions  read-option records and rocksdb_readoptions_create_copy  *)
(*   SpecIngest   marshalling of the external-file ingest request          *)
(*   SpecTxn      the transaction calls over a transactional store         *)
(***************************************************************************)
EXTENDS Integers, Sequences, FiniteSets, TLC

VARIABLES
    status,     \* the caller's rocksdb_status_t records, by pointer
    heap,       \* live char[] allocations: address -> bytes
    lastCall,   \* the bridge call that returned last, and what it did
    ropts,      \* the rocksdb_readoptions_t objects, by address
    bytes,      \* the caller's key and timestamp buffers
    atCopy,     \* for each copied option record: its source, its bounds then
    list,       \* the caller's array of rocksdb_ingestexternalfilearg_t
    ingested,   \* the files the store has ingested, by column family
    lastIngest, \* the ingest call that returned last
    db,         \* the committed content of the transactional store
    txns,       \* the transactions: state, write set
    lastOp,     \* the transaction call that returned last
    memory,     \* the engine's value blocks: the current one of each key
    batch,      \* the write set a transaction has buffered
    overlay,    \* the puts buffered in a write-batch overlay
    wrappers,   \* live rocksdb_pinnableslice_t objects, by address
    held,       \* the pinned buffers the caller has not released
    objects,    \* live rocksdb_t and rocksdb_column_family_handle_t, by address
    slots,      \* the caller's column_family_handles array
    lastOpen    \* the arguments and the engine's answer of the last open call

statusVars == <<status, heap, lastCall>>
optionVars == <<ropts, bytes, atCopy>>
ingestVars == <<list, ingested, lastIngest>>
txnVars == <<db, txns, lastOp>>
pinVars == <<memory, batch, overlay, wrappers, held>>
openVars == <<objects, slots, lastOpen>>
vars == <<statusVars, optionVars, ingestVars, txnVars, pinVars, openVars>>

----------------------------------------------------------------------------
(* Bounds of the model *)

NumStatus == 2      \* status records the caller passes around
MaxAddr == 3        \* addresses of the char heap

----------------------------------------------------------------------------
(* c.h: the three enumerations of rocksdb_status_t *)

rocksdb_status_code_ok == 0
rocksdb_status_code_not_found == 1
rocksdb_status_code_corruption == 2
rocksdb_status_code_invalid_argument == 4
rocksdb_status_code_io_error == 5
rocksdb_status_code_timed_out == 9
rocksdb_status_code_busy == 11

rocksdb_status_subcode_none == 0
rocksdb_status_subcode_lock_timeout == 2
rocksdb_status_subcode_no_space == 4
rocksdb_status_subcode_deadlock == 5

rocksdb_status_severity_none == 0
rocksdb_status_severity_hard_error == 2
rocksdb_status_severity_fatal_error == 3

NULL == 0           \* nullptr
NUL == 0            \* the terminating char of a C string

StatusPtrs == 1..NumStatus

MaxCfs == 2         \* column families an open call asks for
ObjAddrs == 1..(2 * (MaxCfs + 1))
Addr == 1..MaxAddr
Fields == {"code", "subcode", "severity", "string"}

(* An engine Status as the bridge sees it: code(), subcode(), severity() and
   the characters ToString() yields. *)
EngineStatus(c, sc, sv, txt) ==
    [code |-> c, subcode |-> sc, severity |-> sv, text |-> txt]

StatusOK ==
    EngineStatus(rocksdb_status_code_ok, rocksdb_status_subcode_none,
                 rocksdb_status_severity_none, <<79, 75>>)
StatusNotFound ==
    EngineStatus(rocksdb_status_code_not_found, rocksdb_status_subcode_none,
                 rocksdb_status_severity_none, <<78, 70>>)
StatusCorruption ==
    EngineStatus(rocksdb_status_code_corruption, rocksdb_status_subcode_none,
                 rocksdb_status_severity_fatal_error, <<67>>)
StatusNoSpace ==
    EngineStatus(rocksdb_status_code_io_error, rocksdb_status_subcode_no_space,
                 rocksdb_status_severity_hard_error, <<73, 79, 83>>)
StatusLockTimeout ==
    EngineStatus(rocksdb_status_code_timed_out,
                 rocksdb_status_subcode_lock_timeout,
                 rocksdb_status_severity_none, <<84, 79>>)
StatusDeadlock ==
    EngineStatus(rocksdb_status_code_busy, rocksdb_status_subcode_deadlock,
                 rocksdb_status_severity_none, <<66>>)
StatusInvalidArgument ==
    EngineStatus(rocksdb_status_code_invalid_argument,
                 rocksdb_status_subcode_none, rocksdb_status_severity_none,
                 <<73, 65>>)

(* What an engine operation may answer when nothing more is known of it. *)
Outcomes == {StatusOK, StatusNotFound, StatusCorruption, StatusNoSpace}

ok(source) == source.code = rocksdb_status_code_ok
IsNotFound(source) == source.code = rocksdb_status_code_not_found

----------------------------------------------------------------------------
(* The char heap *)

Min(S) == CHOOSE x \in S : \A y \in S : x <= y

FreeAddrs(h) == Addr \ DOMAIN h

(* new char[n]: the lowest free address *)
NewAddr(h) == Min(FreeAddrs(h))

Store(h, a, chars) == [x \in DOMAIN h \cup {a} |-> IF x = a THEN chars ELSE h[x]]
Release(h, a) == [x \in DOMAIN h \ {a} |-> h[x]]

(* std::string::c_str(): the characters and the terminating NUL *)
c_str(msg) == msg \o <<NUL>>

(* memcpy(dst, src, n) into a fresh array: the first n bytes of src *)
memcpy(src, n) == SubSeq(src, 1, n)

(* The caller's record before any call: the zero-initialised struct. *)
EmptyStatus ==
    [code |-> rocksdb_status_code_ok, subcode |-> rocksdb_status_subcode_none,
     severity |-> rocksdb_status_severity_none, string |-> NULL]

----------------------------------------------------------------------------
(* SaveStatus (c.cc:96-109).  msg is the local std::string, whose buffer lives
   while SaveStatus runs; string is the new char[msg.size() + 1] the record
   keeps.  Yields the record, the heap after msg is gone, the fields written
   and the returned bool. *)

SaveStatusBorrowed(target, source, h) ==
    LET m == NewAddr(h)
    IN  [rec |-> [code |-> source.code, subcode |-> source.subcode,
                  severity |-> source.severity,
                  string |-> IF ok(source) THEN NULL ELSE m],
         heap |-> h, written |-> Fields, ret |-> ~ok(source), saves |-> 1]

SaveStatusKeepsString(target, source, h) ==
    LET m == NewAddr(h)
        string == NewAddr(Store(h, m, c_str(source.text)))
        base == [code |-> source.code, subcode |-> source.subcode,
                 severity |-> source.severity, string |-> target.string]
    IN  IF ok(source)
        THEN [rec |-> base, heap |-> h, written |-> Fields \ {"string"},
              ret |-> ~ok(source), saves |-> 1]
        ELSE [rec |-> [base EXCEPT !.string = string],
              heap |-> Store(h, string,
                             memcpy(c_str(source.text), Len(source.text) + 1)),
              written |-> Fields, ret |-> ~ok(source), saves |-> 1]

SaveStatus(target, source, h) ==
    LET m == NewAddr(h)
        string == NewAddr(Store(h, m, c_str(source.text)))
        base == [code |-> source.code, subcode |-> source.subcode,
                 severity |-> source.severity, string |-> target.string]
    IN  IF ok(source)
        THEN [rec |-> [base EXCEPT !.string = NULL], heap |-> h,
              written |-> Fields, ret |-> ~ok(source), saves |-> 1]
        ELSE [rec |-> [base EXCEPT !.string = string],
              heap |-> Store(h, string,
                             memcpy(c_str(source.text), Len(source.text) + 1)),
              written |-> Fields, ret |-> ~ok(source), saves |-> 1]

(* A call that allocates needs room for msg and for the copy. *)
CanSave(source, h) == ok(source) \/ Cardinality(FreeAddrs(h)) >= 2

(* A path that returns without calling SaveStatus. *)
Untouched(target, h) ==
    [rec |-> target, heap |-> h, written |-> {}, ret |-> FALSE, saves |-> 0]

----------------------------------------------------------------------------
(* The pinned reads.  s is what Get / GetForUpdate answered; the result is the
   wrapper v ("buffer") or nullptr ("null"); steps are the steps the body has
   taken, in order: "new" and "delete" of the wrapper v, the engine call, and
   SaveStatus. *)

GetPinnedSavesNothing(target, s, h) ==
    [st |-> Untouched(target, h),
     result |-> IF ok(s) THEN "buffer" ELSE "null",
     steps |-> IF ok(s) THEN <<"new", "engine">>
               ELSE <<"new", "engine", "delete">>]

GetPinnedDropsWrapper(target, s, h) ==
    [st |-> IF ~ok(s) /\ ~IsNotFound(s) THEN SaveStatus(target, s, h)
            ELSE Untouched(target, h),
     result |-> "null",
     steps |-> IF ~ok(s) /\ ~IsNotFound(s)
               THEN <<"new", "engine", "delete", "SaveStatus">>
               ELSE <<"new", "engine", "delete">>]

(* c.cc:113-128, 248-263, 340-355, 357-373: the four bodies differ only in
   the receiver (db or txn) and in Get / GetForUpdate. *)
GetPinnedLeaksOnNotFound(target, s, h) ==
    IF ~ok(s)
    THEN [st |-> IF ~IsNotFound(s) THEN SaveStatus(target, s, h)
                 ELSE Untouched(target, h),
          result |-> "null",
          steps |-> IF ~IsNotFound(s)
                    THEN <<"new", "engine", "delete", "SaveStatus">>
                    ELSE <<"new", "engine">>]
    ELSE [st |-> Untouched(target, h), result |-> "buffer",
          steps |-> <<"new", "engine">>]

GetPinnedReturnsFreed(target, s, h) ==
    IF ~ok(s)
    THEN [st |-> IF ~IsNotFound(s) THEN SaveStatus(target, s, h)
                 ELSE Untouched(target, h),
          result |-> "null",
          steps |-> IF ~IsNotFound(s)
                    THEN <<"new", "engine", "delete", "SaveStatus">>
                    ELSE <<"new", "engine", "delete">>]
    ELSE [st |-> Untouched(target, h), result |-> "buffer",
          steps |-> <<"new", "engine", "delete">>]

GetPinned(target, s, h) ==
    IF ~ok(s)
    THEN [st |-> IF ~IsNotFound(s) THEN SaveStatus(target, s, h)
                 ELSE Untouched(target, h),
          result |-> "null",
          steps |-> IF ~IsNotFound(s)
                    THEN <<"new", "engine", "delete", "SaveStatus">>
                    ELSE <<"new", "engine", "delete">>]
    ELSE [st |-> Untouched(target, h), result |-> "buffer",
          steps |-> <<"new", "engine">>]

rocksdb_get_pinned_cf_with_status(target, s, h) == GetPinned(target, s, h)
rocksdb_transactiondb_get_pinned_cf_with_status(target, s, h) ==
    GetPinned(target, s, h)
rocksdb_transaction_get_pinned_cf_with_status(target, s, h) ==
    GetPinned(target, s, h)
GetForUpdateKeepsWrapper(target, s, h) ==
    [st |-> IF ~ok(s) /\ ~IsNotFound(s) THEN SaveStatus(target, s, h)
            ELSE Untouched(target, h),
     result |-> "buffer",
     steps |-> IF ~ok(s) /\ ~IsNotFound(s)
               THEN <<"new", "engine", "SaveStatus">>
               ELSE <<"new", "engine">>]

rocksdb_transaction_get_for_update_pinned_cf_with_status(target, s, h) ==
    GetPinned(target, s, h)

(* The three open calls (c.cc:130-161, 168-198, 214-246).  s and handles are
   what the engine's open answered, array the caller's column_family_handles
   and objs the bridge's live objects.  Every new takes the lowest free
   address. *)
NthFree(objs, n) ==
    CHOOSE a \in ObjAddrs \ DOMAIN objs :
        Cardinality({b \in ObjAddrs \ DOMAIN objs : b < a}) = n - 1

(* A body that fills the array from its last slot. *)
OpenFillsBackwards(target, s, handles, array, objs, h) ==
    IF SaveStatus(target, s, h).ret
    THEN [st |-> SaveStatus(target, s, h), result |-> NULL,
          steps |-> <<"engine", "SaveStatus">>,
          array |-> array, objs |-> objs]
    ELSE [st |-> SaveStatus(target, s, h),
          result |-> NthFree(objs, Len(handles) + 1),
          steps |-> <<"engine", "SaveStatus">>,
          array |-> [i \in DOMAIN array |->
                        IF i <= Len(handles)
                        THEN NthFree(objs, Len(handles) + 1 - i)
                        ELSE array[i]],
          objs |-> [a \in DOMAIN objs
                          \cup {NthFree(objs, i) : i \in 1..(Len(handles) + 1)} |->
                        IF a \in DOMAIN objs THEN objs[a]
                        ELSE IF a = NthFree(objs, Len(handles) + 1)
                        THEN [kind |-> "db", rep |-> "db"]
                        ELSE [kind |-> "cf",
                              rep |-> handles[CHOOSE i \in 1..Len(handles) :
                                                  a = NthFree(objs, i)]]]]

OpenColumnFamilies(target, s, handles, array, objs, h) ==
    LET saved == SaveStatus(target, s, h)
        c_handle == [i \in 1..Len(handles) |-> NthFree(objs, i)]
        result == NthFree(objs, Len(handles) + 1)
    IN  IF saved.ret
        THEN [st |-> saved, result |-> NULL,
              steps |-> <<"engine", "SaveStatus">>,
              array |-> array, objs |-> objs]
        ELSE [st |-> saved, result |-> result,
              steps |-> <<"engine", "SaveStatus">>,
              array |-> [i \in DOMAIN array |->
                            IF i <= Len(handles) THEN c_handle[i]
                            ELSE array[i]],
              objs |-> [a \in DOMAIN objs \cup {result}
                              \cup {c_handle[i] : i \in 1..Len(handles)} |->
                            IF a \in DOMAIN objs THEN objs[a]
                            ELSE IF a = result
                            THEN [kind |-> "db", rep |-> "db"]
                            ELSE [kind |-> "cf",
                                  rep |-> handles[CHOOSE i \in 1..Len(handles) :
                                                      a = c_handle[i]]]]]

rocksdb_open_for_read_only_column_families_with_status(target, s, handles, array, objs, h) ==
    OpenColumnFamilies(target, s, handles, array, objs, h)
rocksdb_open_as_secondary_column_families_with_status(target, s, handles, array, objs, h) ==
    OpenColumnFamilies(target, s, handles, array, objs, h)
rocksdb_transactiondb_open_column_families_with_status(target, s, handles, array, objs, h) ==
    OpenColumnFamilies(target, s, handles, array, objs, h)

Opens ==
    {"rocksdb_open_for_read_only_column_families_with_status",
     "rocksdb_open_as_secondary_column_families_with_status",
     "rocksdb_transactiondb_open_column_families_with_status"}

OpenBridge(fn, target, s, handles, array, objs, h) ==
    CASE fn = "rocksdb_open_for_read_only_column_families_with_status" ->
            rocksdb_open_for_read_only_column_families_with_status(
                target, s, handles, array, objs, h)
      [] fn = "rocksdb_open_as_secondary_column_families_with_status" ->
            rocksdb_open_as_secondary_column_families_with_status(
                target, s, handles, array, objs, h)
      [] fn = "rocksdb_transactiondb_open_column_families_with_status" ->
            rocksdb_transactiondb_open_column_families_with_status(
                target, s, handles, array, objs, h)

PinnedReads ==
    {"rocksdb_get_pinned_cf_with_status",
     "rocksdb_transactiondb_get_pinned_cf_with_status",
     "rocksdb_transaction_get_pinned_cf_with_status",
     "rocksdb_transaction_get_for_update_pinned_cf_with_status"}

(* The calls whose body is SaveStatus(statusptr, <one engine call>). *)
Forwarded(target, s, h) ==
    [st |-> SaveStatus(target, s, h), result |-> "void",
     steps |-> <<"engine", "SaveStatus">>]

rocksdb_try_catch_up_with_primary_with_status(target, s, h) ==
    Forwarded(target, s, h)
rocksdb_transactiondb_put_cf_with_status(target, s, h) ==
    Forwarded(target, s, h)
CommitReportsOk(target, s, h) == Forwarded(target, StatusOK, h)

rocksdb_transaction_commit_with_status(target, s, h) ==
    Forwarded(target, s, h)
RollbackReportsOk(target, s, h) == Forwarded(target, StatusOK, h)

rocksdb_transaction_rollback_with_status(target, s, h) ==
    Forwarded(target, s, h)
rocksdb_transaction_put_cf_with_status(target, s, h) ==
    Forwarded(target, s, h)
rocksdb_transaction_delete_cf_with_status(target, s, h) ==
    Forwarded(target, s, h)
rocksdb_sstfilewriter_open_with_status(target, s, h) ==
    Forwarded(target, s, h)
rocksdb_iter_get_status(target, s, h) == Forwarded(target, s, h)
rocksdb_transactiondb_flush_cfs_with_status(target, s, h) ==
    Forwarded(target, s, h)
rocksdb_transactiondb_compact_range_cf_opt_with_status(target, s, h) ==
    Forwarded(target, s, h)
rocksdb_sstfilewriter_put_with_status(target, s, h) ==
    Forwarded(target, s, h)
(* A body that calls the engine again when it failed. *)
FinishRetries(target, s, h) ==
    [st |-> SaveStatus(target, s, h), result |-> "void",
     steps |-> IF ok(s) THEN <<"engine", "SaveStatus">>
               ELSE <<"engine", "engine", "SaveStatus">>]

rocksdb_sstfilewriter_finish_with_status(target, s, h) ==
    Forwarded(target, s, h)

(* rocksdb_transactiondb_create_checkpoint_with_status (c.cc:316-328).
   created is what Checkpoint::Create answers and s what CreateCheckpoint
   answers when it is called. *)
rocksdb_transactiondb_create_checkpoint_with_status(target, created, s, h) ==
    IF ~ok(created)
    THEN [st |-> SaveStatus(target, created, h), result |-> "void",
          steps |-> <<"Create", "SaveStatus">>]
    ELSE [st |-> SaveStatus(target, s, h), result |-> "void",
          steps |-> <<"Create", "CreateCheckpoint", "SaveStatus", "delete">>]

Forwarders ==
    {"rocksdb_try_catch_up_with_primary_with_status",
     "rocksdb_sstfilewriter_open_with_status",
     "rocksdb_iter_get_status"}

(* The function named fn, applied. *)
Bridge(fn, target, s, h) ==
    CASE fn = "rocksdb_get_pinned_cf_with_status" ->
            rocksdb_get_pinned_cf_with_status(target, s, h)
      [] fn = "rocksdb_transactiondb_get_pinned_cf_with_status" ->
            rocksdb_transactiondb_get_pinned_cf_with_status(target, s, h)
      [] fn = "rocksdb_transaction_get_pinned_cf_with_status" ->
            rocksdb_transaction_get_pinned_cf_with_status(target, s, h)
      [] fn = "rocksdb_transaction_get_for_update_pinned_cf_with_status" ->
            rocksdb_transaction_get_for_update_pinned_cf_with_status(target, s, h)
      [] fn = "rocksdb_try_catch_up_with_primary_with_status" ->
            rocksdb_try_catch_up_with_primary_with_status(target, s, h)
      [] fn = "rocksdb_sstfilewriter_open_with_status" ->
            rocksdb_sstfilewriter_open_with_status(target, s, h)
      [] fn = "rocksdb_iter_get_status" ->
            rocksdb_iter_get_status(target, s, h)
      [] fn = "rocksdb_transactiondb_put_cf_with_status" ->
            rocksdb_transactiondb_put_cf_with_status(target, s, h)
      [] fn = "rocksdb_transaction_put_cf_with_status" ->
            rocksdb_transaction_put_cf_with_status(target, s, h)
      [] fn = "rocksdb_transaction_delete_cf_with_status" ->
            rocksdb_transaction_delete_cf_with_status(target, s, h)
      [] fn = "rocksdb_transaction_commit_with_status" ->
            rocksdb_transaction_commit_with_status(target, s, h)
      [] fn = "rocksdb_transaction_rollback_with_status" ->
            rocksdb_transaction_rollback_with_status(target, s, h)
      [] fn = "rocksdb_transactiondb_flush_cfs_with_status" ->
            rocksdb_transactiondb_flush_cfs_with_status(target, s, h)
      [] fn = "rocksdb_transactiondb_compact_range_cf_opt_with_status" ->
            rocksdb_transactiondb_compact_range_cf_opt_with_status(target, s, h)
      [] fn = "rocksdb_transactiondb_ingest_external_files_with_status" ->
            Forwarded(target, s, h)
      [] fn = "rocksdb_sstfilewriter_put_with_status" ->
            rocksdb_sstfilewriter_put_with_status(target, s, h)
      [] fn = "rocksdb_sstfilewriter_finish_with_status" ->
            rocksdb_sstfilewriter_finish_with_status(target, s, h)

(* The record of a call that has returned. *)
Returned(fn, p, s, r) ==
    [fn |-> fn, ptr |-> p, source |-> s, result |-> r.result,
     written |-> r.st.written, ret |-> r.st.ret, saves |-> r.st.saves,
     steps |-> r.steps, answers |-> <<s>>]

NoCall ==
    [fn |-> "none", ptr |-> 1, source |-> StatusOK, result |-> "void",
     written |-> {}, ret |-> FALSE, saves |-> 0, steps |-> <<>>,
     answers |-> <<>>]

----------------------------------------------------------------------------
(* Spec: a caller that passes its status records to the bridge, with an engine
   that may answer anything. *)

StatusInit ==
    /\ status = [p \in StatusPtrs |-> EmptyStatus]
    /\ heap = <<>>
    /\ lastCall = NoCall

(* One bridge call on record p, the engine answering s. *)
Call(fn, p, s) ==
    /\ CanSave(s, heap)
    /\ LET r == Bridge(fn, status[p], s, heap)
       IN  /\ status' = [status EXCEPT ![p] = r.st.rec]
           /\ heap' = r.st.heap
           /\ lastCall' = Returned(fn, p, s, r)
    /\ UNCHANGED <<optionVars, ingestVars, txnVars, pinVars, openVars>>

PinnedRead == \E fn \in PinnedReads, p \in StatusPtrs, s \in Outcomes : Call(fn, p, s)

ForwardedCall == \E fn \in Forwarders, p \in StatusPtrs, s \in Outcomes : Call(fn, p, s)

(* The caller takes the message out of record p, frees it with rocksdb_free
   and starts over with a zeroed record. *)
FreeMessage(p) ==
    /\ status[p].string # NULL
    /\ status[p].string \in DOMAIN heap
    /\ heap' = Release(heap, status[p].string)
    /\ status' = [status EXCEPT ![p] = EmptyStatus]
    /\ lastCall' = NoCall
    /\ UNCHANGED <<optionVars, ingestVars, txnVars, pinVars, openVars>>

CallerFrees == \E p \in StatusPtrs : FreeMessage(p)

StatusNext == PinnedRead \/ ForwardedCall \/ CallerFrees

(* The calls that hand one engine operation's outcome to SaveStatus
   (c.cc:265-314, 330-338, 375-411), here always with the caller's first
   record. *)
EngineCalls ==
    {"rocksdb_transactiondb_put_cf_with_status",
     "rocksdb_transaction_put_cf_with_status",
     "rocksdb_transaction_delete_cf_with_status",
     "rocksdb_transaction_commit_with_status",
     "rocksdb_transaction_rollback_with_status",
     "rocksdb_transactiondb_flush_cfs_with_status",
     "rocksdb_transactiondb_compact_range_cf_opt_with_status",
     "rocksdb_transactiondb_ingest_external_files_with_status",
     "rocksdb_sstfilewriter_open_with_status",
     "rocksdb_sstfilewriter_put_with_status",
     "rocksdb_sstfilewriter_finish_with_status",
     "rocksdb_iter_get_status"}

EngineCall == \E fn \in EngineCalls, s \in Outcomes : Call(fn, 1, s)

(* The checkpoint call on record p.  The record of the call keeps the outcome
   handed to SaveStatus as its source and both answers of the engine. *)
CreateCheckpoint(p, created, s) ==
    LET r == rocksdb_transactiondb_create_checkpoint_with_status(
                 status[p], created, s, heap)
        reported == IF ok(created) THEN s ELSE created
    IN  /\ CanSave(reported, heap)
        /\ status' = [status EXCEPT ![p] = r.st.rec]
        /\ heap' = r.st.heap
        /\ lastCall' = [Returned(
              "rocksdb_transactiondb_create_checkpoint_with_status",
              p, reported, r) EXCEPT !.answers = <<created, s>>]
        /\ UNCHANGED <<optionVars, ingestVars, txnVars, pinVars, openVars>>

CheckpointCall ==
    \E created \in Outcomes, s \in Outcomes : CreateCheckpoint(1, created, s)

ForwardNext == EngineCall \/ CheckpointCall \/ CallerFrees

----------------------------------------------------------------------------
(* Read-option records (c.cc:66-73) and rocksdb_readoptions_create_copy.

   A rocksdb_readoptions_t holds the engine's ReadOptions (rep) and four Slice
   members; rep's bound pointers are set to point at those members, and each
   Slice borrows the caller's bytes. *)

MaxOpts == 2        \* rocksdb_readoptions_t objects ever allocated

OptPtrs == 1..MaxOpts
Bufs == {"k1"}
ByteVals == {<<1>>, <<2>>}

(* The Slice members, and the member of rep that points at each. *)
BoundFields == {"upper_bound", "lower_bound", "timestamp", "iter_start_ts"}
RepField(f) ==
    CASE f = "upper_bound" -> "iterate_upper_bound"
      [] f = "lower_bound" -> "iterate_lower_bound"
      [] f = "timestamp" -> "timestamp"
      [] f = "iter_start_ts" -> "iter_start_ts"

(* Slice() and Slice(data, size) *)
EmptySlice == [data |-> "", size |-> 0]
Slice(d, n) == [data |-> d, size |-> n]

(* A Slice* : nullptr, or the address of member f of object o *)
NullPtr == [obj |-> 0, field |-> ""]
AddrOf(o, f) == [obj |-> o, field |-> f]

DefaultReadOptions ==
    [iterate_upper_bound |-> NullPtr, iterate_lower_bound |-> NullPtr,
     timestamp |-> NullPtr, iter_start_ts |-> NullPtr]

Unallocated ==
    [state |-> "unallocated", rep |-> DefaultReadOptions,
     upper_bound |-> EmptySlice, lower_bound |-> EmptySlice,
     timestamp |-> EmptySlice, iter_start_ts |-> EmptySlice]

NoCopy == [src |-> 0, slice |-> [f \in BoundFields |-> EmptySlice],
           content |-> [f \in BoundFields |-> <<>>]]

(* The bytes a Slice denotes. *)
SliceBytes(s) == IF s.data = "" THEN <<>> ELSE SubSeq(bytes[s.data], 1, s.size)

Live(o) == o \in OptPtrs /\ ropts[o].state = "live"
FreshOpt == Min({o \in OptPtrs : ropts[o].state = "unallocated"})

OptionsInit ==
    /\ ropts = [o \in OptPtrs |-> Unallocated]
    /\ bytes \in [Bufs -> ByteVals]
    /\ atCopy = [o \in OptPtrs |-> NoCopy]

(* rocksdb_readoptions_create: new rocksdb_readoptions_t *)
rocksdb_readoptions_create ==
    /\ \E o \in OptPtrs : ropts[o].state = "unallocated"
    /\ ropts' = [ropts EXCEPT ![FreshOpt] = [Unallocated EXCEPT !.state = "live"]]
    /\ UNCHANGED <<bytes, atCopy, statusVars, ingestVars, txnVars, pinVars, openVars>>

(* rocksdb_readoptions_set_iterate_upper_bound and the three like it: with a
   null key the member is reset and rep's pointer cleared; otherwise the member
   borrows the caller's bytes and rep points at the member.  A copy's own
   bound, once set anew, is what it is compared against from then on. *)
SetBound(o, f, key) ==
    LET slice == IF key = "" THEN EmptySlice ELSE Slice(key, Len(bytes[key]))
        ptr == IF key = "" THEN NullPtr ELSE AddrOf(o, f)
    IN  /\ Live(o)
        /\ ropts' = [ropts EXCEPT ![o][f] = slice, ![o].rep[RepField(f)] = ptr]
        /\ atCopy' = IF atCopy[o].src = 0 THEN atCopy
                     ELSE [atCopy EXCEPT ![o].slice[f] = slice,
                                         ![o].content[f] =
                                            IF key = "" THEN <<>> ELSE bytes[key]]
        /\ UNCHANGED <<bytes, statusVars, ingestVars, txnVars, pinVars, openVars>>

rocksdb_readoptions_set_bound ==
    \E o \in OptPtrs, f \in BoundFields, key \in Bufs \cup {""} : SetBound(o, f, key)

(* What the Slice* p of a live object's rep points at. *)
Deref(p) == ropts[p.obj][p.field]

(* rocksdb_readoptions_create_copy (c.cc:413-416): a new rocksdb_readoptions_t
   copy-constructed from the one options points to.  The struct declares no
   copy constructor, so this is the implicit member-wise copy: rep and the
   four Slice members are copied as they are. *)
CopyOfOptions(options) == [options EXCEPT !.state = "live"]

rocksdb_readoptions_create_copy(options) ==
    /\ Live(options)
    /\ \E o \in OptPtrs : ropts[o].state = "unallocated"
    /\ ropts' = [ropts EXCEPT ![FreshOpt] = CopyOfOptions(ropts[options])]
    /\ atCopy' = [atCopy EXCEPT ![FreshOpt] =
            [src |-> options,
             slice |-> [f \in BoundFields |->
                 IF ropts[options].rep[RepField(f)] = NullPtr THEN EmptySlice
                 ELSE Deref(ropts[options].rep[RepField(f)])],
             content |-> [f \in BoundFields |-> SliceBytes(ropts[options][f])]]]
    /\ UNCHANGED <<bytes, statusVars, ingestVars, txnVars, pinVars, openVars>>

CreateCopy == \E options \in OptPtrs : rocksdb_readoptions_create_copy(options)

(* rocksdb_readoptions_destroy: delete opt *)
rocksdb_readoptions_destroy(o) ==
    /\ Live(o)
    /\ ropts' = [ropts EXCEPT ![o].state = "freed"]
    /\ UNCHANGED <<bytes, atCopy, statusVars, ingestVars, txnVars, pinVars, openVars>>

Destroy == \E o \in OptPtrs : rocksdb_readoptions_destroy(o)

(* The caller overwrites one of its buffers in place. *)
Overwrite(b, v) ==
    /\ bytes[b] # v
    /\ bytes' = [bytes EXCEPT ![b] = v]
    /\ UNCHANGED <<ropts, atCopy, statusVars, ingestVars, txnVars, pinVars, openVars>>

CallerOverwrites == \E b \in Bufs, v \in ByteVals : Overwrite(b, v)

OptionsNext ==
    \/ rocksdb_readoptions_create
    \/ rocksdb_readoptions_set_bound
    \/ CreateCopy
    \/ Destroy
    \/ CallerOverwrites

----------------------------------------------------------------------------
(* rocksdb_transactiondb_ingest_external_files_with_status (c.cc:300-314) and
   the triples of c.h:61-66. *)

MaxTriples == 2     \* entries of the caller's array

(* The column-family and ingest-option wrappers the caller holds, and the
   engine object each wraps (its rep). *)
CfHandles == {1, 2}
CfRep(column_family) == IF column_family = 1 THEN "default" ELSE "id2str"
IngestOptions == {1, 2}
IngestOptionsRep(options) == [move_files |-> options = 2]

(* File paths as C strings. *)
PathA == <<97, NUL>>
PathB == <<98, NUL>>

(* external_files and external_files_len, as the caller may pass them. *)
FileArgs ==
    {[external_files |-> <<PathA, PathB>>, external_files_len |-> 2],
     [external_files |-> <<PathB, PathA>>, external_files_len |-> 2],
     [external_files |-> <<PathA, PathB>>, external_files_len |-> 1],
     [external_files |-> <<PathB>>, external_files_len |-> 0]}

(* rocksdb_ingestexternalfilearg_t *)
Triple(cf, fa, opt) ==
    [column_family |-> cf, external_files |-> fa.external_files,
     external_files_len |-> fa.external_files_len, options |-> opt]

(* std::string from a C string: the characters before the first NUL *)
StdString(cs) ==
    SubSeq(cs, 1, Min({i \in 1..Len(cs) : cs[i] = NUL}) - 1)

(* The inner loop: files[j] = std::string(list[i].external_files[j]) *)
FilesReversed(arg) ==
    [j \in 1..arg.external_files_len |->
        StdString(arg.external_files[arg.external_files_len + 1 - j])]

Files(arg) ==
    [j \in 1..arg.external_files_len |-> StdString(arg.external_files[j])]

(* The outer loop: args[i] from list[i], for i < list_len *)
NonEmptyFiles(arg) == arg.external_files_len > 0

MarshalArgsSkippingEmpty(l, list_len) ==
    LET kept == SelectSeq(SubSeq(l, 1, list_len), NonEmptyFiles)
    IN  [i \in 1..Len(kept) |->
            [column_family |-> CfRep(kept[i].column_family),
             external_files |-> Files(kept[i]),
             options |-> IngestOptionsRep(kept[i].options)]]

MarshalArgs(l, list_len) ==
    [i \in 1..list_len |->
        [column_family |-> CfRep(l[i].column_family),
         external_files |-> Files(l[i]),
         options |-> IngestOptionsRep(l[i].options)]]

(* What a group adds to the store. *)
GroupFiles(g) ==
    {<<g.column_family, g.external_files[j]>> : j \in 1..Len(g.external_files)}
AllFiles(args) == UNION {GroupFiles(args[i]) : i \in 1..Len(args)}

(* The engine's IngestExternalFiles: all groups or none.  A group without
   files is an invalid argument; unreadable says that a file of the request
   cannot be ingested. *)
IngestExternalFiles(args, files, unreadable) ==
    IF \E i \in 1..Len(args) : Len(args[i].external_files) = 0
    THEN [s |-> StatusInvalidArgument, files |-> files]
    ELSE IF unreadable
    THEN [s |-> StatusCorruption, files |-> files]
    ELSE [s |-> StatusOK, files |-> files \cup AllFiles(args)]

NoIngest ==
    [called |-> FALSE, list |-> <<>>, list_len |-> 0, args |-> <<>>,
     before |-> {}]

IngestInit ==
    /\ list = <<>>
    /\ ingested = {}
    /\ lastIngest = NoIngest

(* The caller adds one triple to its array. *)
AppendTriple(cf, fa, opt) ==
    /\ ~lastIngest.called
    /\ Len(list) < MaxTriples
    /\ list' = Append(list, Triple(cf, fa, opt))
    /\ UNCHANGED <<ingested, lastIngest, statusVars, optionVars, txnVars, pinVars, openVars>>

CallerAppends ==
    \E cf \in CfHandles, fa \in FileArgs, opt \in IngestOptions :
        AppendTriple(cf, fa, opt)

(* The call, on the first list_len entries of the array, with status record p. *)
rocksdb_transactiondb_ingest_external_files_with_status(list_len, p, unreadable) ==
    LET args == MarshalArgs(list, list_len)
        e == IngestExternalFiles(args, ingested, unreadable)
    IN  /\ ~lastIngest.called
        /\ CanSave(e.s, heap)
        /\ ingested' = e.files
        /\ status' = [status EXCEPT
              ![p] = Forwarded(status[p], e.s, heap).st.rec]
        /\ heap' = Forwarded(status[p], e.s, heap).st.heap
        /\ lastCall' = Returned(
              "rocksdb_transactiondb_ingest_external_files_with_status",
              p, e.s, Forwarded(status[p], e.s, heap))
        /\ lastIngest' = [called |-> TRUE, list |-> list,
                          list_len |-> list_len, args |-> args,
                          before |-> ingested]
        /\ UNCHANGED <<list, optionVars, txnVars, pinVars, openVars>>

Ingest ==
    \E list_len \in 0..Len(list), unreadable \in BOOLEAN :
        rocksdb_transactiondb_ingest_external_files_with_status(
            list_len, 1, unreadable)

(* The caller reads the status, frees its message and its array. *)
IngestDone ==
    /\ lastIngest.called
    /\ list' = <<>>
    /\ lastIngest' = NoIngest
    /\ heap' = IF status[1].string = NULL THEN heap
               ELSE Release(heap, status[1].string)
    /\ status' = [status EXCEPT ![1] = EmptyStatus]
    /\ lastCall' = NoCall
    /\ UNCHANGED <<ingested, optionVars, txnVars, pinVars, openVars>>

IngestNext == CallerAppends \/ Ingest \/ IngestDone

(* The transaction calls (c.cc:248-273, 330-387) over a TransactionDB, the
   engine's pessimistic transactional store.

   The engine is outside the bridge.  Its transactions are modelled as the
   bridge's contract describes them: a transaction buffers its writes in a
   private write set that its own reads see and other transactions do not;
   a write or a read-for-update takes the key's lock, and fails with a lock
   timeout while another live transaction holds it; commit applies the write
   set atomically; rollback discards it.  Reads see the committed store as it
   is (no snapshot is set on the read options). *)

NumTxns == 2        \* transaction handles

TxnIds == 1..NumTxns
Keys == {"a"}
Vals == {"1", "2"}
Absent == "absent"      \* no committed value
NoWrite == "nowrite"    \* the write set does not mention the key
Deleted == "deleted"    \* the write set deletes the key

NoTxn ==
    [state |-> "none", writes |-> [k \in Keys |-> NoWrite], locks |-> {},
     began |-> [k \in Keys |-> Absent], locked |-> [k \in Keys |-> Absent],
     undone |-> {}, told |-> "none", waits |-> ""]

NoOp ==
    [fn |-> "none", txn |-> 0, key |-> "", value |-> "", code |-> 0,
     first |-> FALSE]

TxnInit ==
    /\ db = [k \in Keys |-> Absent]
    /\ txns = [t \in TxnIds |-> NoTxn]
    /\ lastOp = NoOp

Active(t) == txns[t].state = "active"

(* t's caller is inside a get-for-update, which has not returned. *)
Waiting(t) == txns[t].waits # ""

(* The handle t exists, begun and not destroyed, and can be called: its
   caller is not inside a call on it. *)
Begun(t) == txns[t].state \notin {"none", "destroyed"} /\ ~Waiting(t)

(* A committed or rolled-back transaction is terminal: the engine rejects every
   call on it but its destruction. *)
Terminal(t) == txns[t].state \in {"committed", "rolledback"}

LockedByOther(t, k) ==
    \E u \in TxnIds \ {t} : Active(u) /\ k \in txns[u].locks

(* Status and value of a lookup that found val. *)
Found(val) ==
    IF val \in {Absent, Deleted}
    THEN [s |-> StatusNotFound, value |-> ""]
    ELSE [s |-> StatusOK, value |-> val]

(* Transaction::Get: the write set first, then the committed store. *)
TransactionGet(t, k) ==
    IF Terminal(t) THEN [s |-> StatusInvalidArgument, value |-> ""]
    ELSE IF txns[t].writes[k] # NoWrite
    THEN Found(txns[t].writes[k])
    ELSE Found(db[k])

(* TransactionDB::Get: the committed store. *)
DBGet(k) == Found(db[k])

(* Taking the lock of k for t: the transactions after it, or the failure. *)
TryLock(t, k) ==
    IF Terminal(t) THEN [s |-> StatusInvalidArgument, txns |-> txns]
    ELSE IF LockedByOther(t, k)
    THEN [s |-> StatusLockTimeout, txns |-> txns]
    ELSE [s |-> StatusOK,
          txns |-> IF k \in txns[t].locks THEN txns
                   ELSE [txns EXCEPT ![t].locks = @ \cup {k},
                                     ![t].locked[k] = db[k]]]

(* Transaction::Put / Delete: lock, then buffer w in the write set. *)
TransactionWrite(t, k, w) ==
    LET l == TryLock(t, k)
    IN  IF ok(l.s)
        THEN [s |-> StatusOK, txns |-> [l.txns EXCEPT ![t].writes[k] = w]]
        ELSE l

(* Transaction::Commit: the store with the write set of t applied. *)
Committed(t) ==
    [k \in Keys |->
        IF txns[t].writes[k] = NoWrite THEN db[k]
        ELSE IF txns[t].writes[k] = Deleted THEN Absent
        ELSE txns[t].writes[k]]

(* The transactions once t has ended in state end.  An ended transaction
   keeps, for the record and for as long as no later write of the key has been
   committed, the writes it committed, or the keys whose writes it has undone
   with the committed values they had: overwritten are the keys that have
   just been written. *)
Ended(ts, t, end, overwritten) ==
    [u \in TxnIds |->
        IF u = t
        THEN IF end = "committed"
             THEN [NoTxn EXCEPT !.state = end, !.writes = ts[t].writes]
             ELSE [NoTxn EXCEPT
                      !.state = end,
                      !.undone = {k \in Keys : ts[t].writes[k] # NoWrite},
                      !.locked = [k \in Keys |->
                                     IF ts[t].writes[k] = NoWrite THEN Absent
                                     ELSE ts[t].locked[k]]]
        ELSE IF ts[u].state \in {"committed", "rolledback"}
        THEN [ts[u] EXCEPT
                  !.writes = [k \in Keys |->
                                 IF k \in overwritten THEN NoWrite ELSE @[k]],
                  !.undone = @ \ overwritten,
                  !.locked = [k \in Keys |->
                                 IF k \in overwritten THEN Absent ELSE @[k]]]
        ELSE ts[u]]

(* The transactions ts, with what the call r told the caller of t's end. *)
Told(ts, t, end, r) ==
    [ts EXCEPT ![t].told =
        IF r.st.rec.code = rocksdb_status_code_ok THEN end ELSE @]

(* The caller passes a zeroed record to every call and has freed the message
   of the call before. *)
FreshHeap ==
    IF status[1].string = NULL THEN heap ELSE Release(heap, status[1].string)

(* What a transaction call leaves in the caller's hands. *)
TxnReturn(fn, t, k, e, r) ==
    /\ status' = [status EXCEPT ![1] = r.st.rec]
    /\ heap' = r.st.heap
    /\ lastCall' = Returned(fn, 1, e.s, r)
    /\ lastOp' = [fn |-> fn, txn |-> t, key |-> k,
                  value |-> IF r.result = "buffer" THEN e.value ELSE "",
                  code |-> r.st.rec.code,
                  first |-> lastOp.fn = "rocksdb_transaction_begin"
                            /\ lastOp.txn = t]
    /\ UNCHANGED <<optionVars, ingestVars, pinVars, openVars>>

(* rocksdb_transaction_begin *)
Begin(t) ==
    /\ txns[t].state = "none"
    /\ txns' = [txns EXCEPT ![t] =
            [NoTxn EXCEPT !.state = "active",
                          !.began = [k \in Keys |-> db[k]]]]
    /\ lastOp' = [NoOp EXCEPT !.fn = "rocksdb_transaction_begin", !.txn = t]
    /\ UNCHANGED <<db, statusVars, optionVars, ingestVars, pinVars, openVars>>

(* The handle that begin returns: a new one, never one that was destroyed. *)
NewTxn == Min({t \in TxnIds : txns[t].state = "none"})

TxnBegin ==
    /\ \E t \in TxnIds : txns[t].state = "none"
    /\ Begin(NewTxn)

(* rocksdb_transaction_destroy, of a transaction that has ended *)
DestroyTxn(t) ==
    /\ txns[t].state \in {"committed", "rolledback"}
    /\ txns' = [txns EXCEPT ![t] = [NoTxn EXCEPT !.state = "destroyed"]]
    /\ lastOp' = NoOp
    /\ UNCHANGED <<db, statusVars, optionVars, ingestVars, pinVars, openVars>>

TxnDestroy == \E t \in TxnIds : DestroyTxn(t)

TxnGet ==
    \E t \in TxnIds, k \in Keys :
        /\ Begun(t)
        /\ LET e == TransactionGet(t, k)
           IN  TxnReturn("rocksdb_transaction_get_pinned_cf_with_status", t, k, e,
                   rocksdb_transaction_get_pinned_cf_with_status(
                       EmptyStatus, e.s, FreshHeap))
        /\ UNCHANGED <<db, txns>>

TxnGetForUpdate ==
    \E t \in TxnIds, k \in Keys :
        /\ Begun(t)
        /\ LET l == TryLock(t, k)
               e == IF ok(l.s) THEN TransactionGet(t, k)
                    ELSE [s |-> l.s, value |-> ""]
           IN  /\ TxnReturn(
                     "rocksdb_transaction_get_for_update_pinned_cf_with_status",
                     t, k, e,
                     rocksdb_transaction_get_for_update_pinned_cf_with_status(
                         EmptyStatus, e.s, FreshHeap))
               /\ txns' = l.txns
        /\ UNCHANGED db

TxnPut ==
    \E t \in TxnIds, k \in Keys, v \in Vals :
        /\ Begun(t)
        /\ LET w == TransactionWrite(t, k, v)
           IN  /\ TxnReturn("rocksdb_transaction_put_cf_with_status", t, k,
                     [s |-> w.s, value |-> v],
                     rocksdb_transaction_put_cf_with_status(
                         EmptyStatus, w.s, FreshHeap))
               /\ txns' = w.txns
        /\ UNCHANGED db

TxnDelete ==
    \E t \in TxnIds, k \in Keys :
        /\ Begun(t)
        /\ LET w == TransactionWrite(t, k, Deleted)
           IN  /\ TxnReturn("rocksdb_transaction_delete_cf_with_status", t, k,
                     [s |-> w.s, value |-> ""],
                     rocksdb_transaction_delete_cf_with_status(
                         EmptyStatus, w.s, FreshHeap))
               /\ txns' = w.txns
        /\ UNCHANGED db

(* Commit; failed says that the engine could not write the commit. *)
TxnCommit ==
    \E t \in TxnIds, failed \in BOOLEAN :
        /\ Begun(t)
        /\ LET s == IF Terminal(t) THEN StatusInvalidArgument
                    ELSE IF failed THEN StatusNoSpace ELSE StatusOK
               r == rocksdb_transaction_commit_with_status(
                        EmptyStatus, s, FreshHeap)
           IN  /\ TxnReturn("rocksdb_transaction_commit_with_status", t, "",
                     [s |-> s, value |-> ""], r)
               /\ db' = IF ok(s) THEN Committed(t) ELSE db
               /\ txns' = Told(IF ~ok(s) THEN txns
                               ELSE Ended(txns, t, "committed",
                                     {k \in Keys : txns[t].writes[k] # NoWrite}),
                               t, "committed", r)

TxnRollback ==
    \E t \in TxnIds :
        /\ Begun(t)
        /\ LET s == IF Terminal(t) THEN StatusInvalidArgument ELSE StatusOK
               r == rocksdb_transaction_rollback_with_status(
                        EmptyStatus, s, FreshHeap)
           IN  /\ TxnReturn("rocksdb_transaction_rollback_with_status", t, "",
                     [s |-> s, value |-> ""], r)
               /\ txns' = Told(IF ok(s) THEN Ended(txns, t, "rolledback", {})
                               ELSE txns,
                               t, "rolledback", r)
        /\ UNCHANGED db

(* rocksdb_transactiondb_put_cf_with_status: a write outside any transaction
   handle, which waits for the key's lock like any other writer. *)
DbPut ==
    \E k \in Keys, v \in Vals :
        LET s == IF LockedByOther(0, k) THEN StatusLockTimeout ELSE StatusOK
        IN  /\ TxnReturn("rocksdb_transactiondb_put_cf_with_status", 0, k,
                  [s |-> s, value |-> v],
                  rocksdb_transactiondb_put_cf_with_status(
                      EmptyStatus, s, FreshHeap))
            /\ db' = IF ok(s) THEN [db EXCEPT ![k] = v] ELSE db
            /\ txns' = IF ok(s) THEN Ended(txns, 0, "none", {k}) ELSE txns

DbGet ==
    \E k \in Keys :
        LET e == DBGet(k)
        IN  /\ TxnReturn("rocksdb_transactiondb_get_pinned_cf_with_status", 0, k,
                  e,
                  rocksdb_transactiondb_get_pinned_cf_with_status(
                      EmptyStatus, e.s, FreshHeap))
            /\ UNCHANGED <<db, txns>>

TxnNext ==
    \/ TxnBegin
    \/ TxnGet
    \/ TxnGetForUpdate
    \/ TxnPut
    \/ TxnDelete
    \/ TxnCommit
    \/ TxnRollback
    \/ TxnDestroy
    \/ DbPut
    \/ DbGet

(* A get-for-update in two steps.  The call is synchronous: the engine's
   GetForUpdate (c.cc:363) holds the calling thread while another live
   transaction has the key's lock, until the lock is released or the
   configured lock timeout expires. *)

(* What the engine answers when it gives up waiting for a lock. *)
LockFailures == {StatusLockTimeout, StatusDeadlock}

(* t's caller enters get-for-update on k. *)
GetForUpdateCalled ==
    \E t \in TxnIds, k \in Keys :
        /\ Begun(t)
        /\ txns' = [txns EXCEPT ![t].waits = k]
        /\ UNCHANGED <<db, lastOp, statusVars, optionVars, ingestVars, pinVars, openVars>>

(* Another live transaction has the lock and the engine gives up waiting: the
   call returns the engine's failure. *)
LockTimesOut(t) ==
    /\ Waiting(t)
    /\ Active(t)
    /\ LockedByOther(t, txns[t].waits)
    /\ \E s \in LockFailures :
           TxnReturn("rocksdb_transaction_get_for_update_pinned_cf_with_status",
               t, txns[t].waits, [s |-> s, value |-> ""],
               rocksdb_transaction_get_for_update_pinned_cf_with_status(
                   EmptyStatus, s, FreshHeap))
    /\ txns' = [txns EXCEPT ![t].waits = ""]
    /\ UNCHANGED db

(* No other live transaction has the lock: the call takes it and returns what
   it read (or, on a terminal handle, the engine's rejection). *)
LockGranted(t) ==
    /\ Waiting(t)
    /\ Terminal(t) \/ ~LockedByOther(t, txns[t].waits)
    /\ LET k == txns[t].waits
           l == TryLock(t, k)
           e == TransactionGet(t, k)
       IN  /\ TxnReturn(
                 "rocksdb_transaction_get_for_update_pinned_cf_with_status",
                 t, k, e,
                 rocksdb_transaction_get_for_update_pinned_cf_with_status(
                     EmptyStatus, e.s, FreshHeap))
           /\ txns' = [l.txns EXCEPT ![t].waits = ""]
    /\ UNCHANGED db

(* The call returns. *)
GetForUpdateReturns(t) == LockTimesOut(t) \/ LockGranted(t)

GetForUpdateTimesOut == \E t \in TxnIds : LockTimesOut(t)

GetForUpdateGranted == \E t \in TxnIds : LockGranted(t)

LockNext ==
    \/ TxnBegin
    \/ TxnPut
    \/ TxnCommit
    \/ GetForUpdateCalled
    \/ GetForUpdateTimesOut
    \/ GetForUpdateGranted

(* The pinned buffers: rocksdb_pinnableslice_t (c.cc:62-64) holds the engine's
   PinnableSlice, which either pins the block of the store that holds the
   value or keeps its own copy of a value found in a write set.  While a
   block is pinned the engine does not reclaim it. *)

MaxPins == 2        \* pinned buffers the caller holds at once

WrapAddrs == 1..MaxPins
Blocks == 1..(MaxPins + Cardinality(Keys))

NoPin == [block |-> NULL, self |-> ""]

PinnedInit ==
    /\ memory = [cur |-> [k \in Keys |-> NULL], blocks |-> <<>>]
    /\ batch = [k \in Keys |-> NoWrite]
    /\ overlay = [k \in Keys |-> NoWrite]
    /\ wrappers = <<>>
    /\ held = <<>>

(* The blocks a wrapper map pins *)
PinnedBlocks(w) == {w[a].block : a \in DOMAIN w} \ {NULL}

(* The engine reclaims every block that is neither current nor pinned. *)
Reclaimed(m, w) ==
    LET live == ({m.cur[k] : k \in Keys} \ {NULL}) \cup PinnedBlocks(w)
    IN  [m EXCEPT !.blocks = [b \in DOMAIN m.blocks \cap live |-> m.blocks[b]]]

(* A committed write of v under k goes to a block nothing uses any more. *)
WriteBlock(m, k, v, w) ==
    LET kept == Reclaimed([m EXCEPT !.cur[k] = NULL], w)
        b == Min(Blocks \ DOMAIN kept.blocks)
    IN  [cur |-> [m.cur EXCEPT ![k] = b],
         blocks |-> [x \in DOMAIN kept.blocks \cup {b} |->
                        IF x = b THEN v ELSE kept.blocks[x]]]

EraseBlock(m, k, w) == Reclaimed([m EXCEPT !.cur[k] = NULL], w)

(* The write set applied to the store, key by key *)
ApplyBatch(m, b, w) ==
    LET k == CHOOSE x \in Keys : TRUE
    IN  IF b[k] = NoWrite THEN m
        ELSE IF b[k] = Deleted THEN EraseBlock(m, k, w)
        ELSE WriteBlock(m, k, b[k], w)

(* PinnableSlice::data(): the bytes a wrapper shows *)
PinnedBytes(rep, m) ==
    IF rep.block = NULL THEN rep.self
    ELSE IF rep.block \in DOMAIN m.blocks THEN m.blocks[rep.block]
    ELSE "freed"

OnTransaction(fn) ==
    fn \in {"rocksdb_transaction_get_pinned_cf_with_status",
            "rocksdb_transaction_get_for_update_pinned_cf_with_status"}

(* The engine's Get into a PinnableSlice: a transaction looks at its write
   set first and copies what it finds there; the store pins the block. *)
EngineGet(fn, k, failed, m, b) ==
    IF failed THEN [s |-> StatusCorruption, rep |-> NoPin]
    ELSE IF OnTransaction(fn) /\ b[k] # NoWrite
    THEN IF b[k] = Deleted THEN [s |-> StatusNotFound, rep |-> NoPin]
         ELSE [s |-> StatusOK, rep |-> [block |-> NULL, self |-> b[k]]]
    ELSE IF m.cur[k] = NULL THEN [s |-> StatusNotFound, rep |-> NoPin]
    ELSE [s |-> StatusOK, rep |-> [block |-> m.cur[k], self |-> ""]]

(* What the contract says the read of k yields: the value the transaction
   buffered last, else the value committed last. *)
Visible(fn, k) ==
    IF OnTransaction(fn) /\ batch[k] # NoWrite THEN batch[k] ELSE db[k]

(* What a read of k would answer now: the outcome's code and the bytes. *)
ReadNow(fn, k, m, b) ==
    LET e == EngineGet(fn, k, FALSE, m, b)
    IN  <<e.s.code, PinnedBytes(e.rep, m)>>

Count(steps, step) == Cardinality({i \in DOMAIN steps : steps[i] = step})

(* The wrapper v outlives the call when the body made it and did not delete
   it. *)
Outlives(steps) == Count(steps, "new") > Count(steps, "delete")

PinReturn(fn, s, r) ==
    /\ status' = [status EXCEPT ![1] = r.st.rec]
    /\ heap' = r.st.heap
    /\ lastCall' = Returned(fn, 1, s, r)
    /\ UNCHANGED <<txns, lastOp, optionVars, ingestVars, openVars>>

(* One of the four pinned reads of k.  The wrapper the body makes takes the
   lowest free address. *)
PinnedGet(fn, k, failed) ==
    LET e == EngineGet(fn, k, failed, memory, batch)
        r == Bridge(fn, EmptyStatus, e.s, FreshHeap)
        v == Min(WrapAddrs \ DOMAIN wrappers)
    IN  /\ Cardinality(DOMAIN held) < MaxPins
        /\ WrapAddrs \ DOMAIN wrappers # {}
        /\ PinReturn(fn, e.s, r)
        /\ wrappers' = IF Outlives(r.steps)
                       THEN [a \in DOMAIN wrappers \cup {v} |->
                               IF a = v THEN e.rep ELSE wrappers[a]]
                       ELSE wrappers
        /\ held' = IF r.result = "buffer"
                   THEN [a \in DOMAIN held \cup {v} |->
                           IF a = v
                           THEN [key |-> k, bytes |-> Visible(fn, k)]
                           ELSE held[a]]
                   ELSE held
        /\ UNCHANGED <<db, memory, batch, overlay>>

PinnedGetCall ==
    \E fn \in PinnedReads, k \in Keys, failed \in BOOLEAN :
        PinnedGet(fn, k, failed)

(* rocksdb_pinnableslice_destroy(v): the caller releases a buffer it holds;
   the block it pinned may now be reclaimed. *)
PinnedRelease(v) ==
    /\ v \in DOMAIN held
    /\ wrappers' = [a \in DOMAIN wrappers \ {v} |-> wrappers[a]]
    /\ held' = [a \in DOMAIN held \ {v} |-> held[a]]
    /\ memory' = Reclaimed(memory, wrappers')
    /\ lastCall' = [NoCall EXCEPT !.fn = "rocksdb_pinnableslice_destroy"]
    /\ UNCHANGED <<status, heap, txnVars, batch, overlay, optionVars,
                   ingestVars, openVars>>

PinnedReleaseCall == \E v \in WrapAddrs : PinnedRelease(v)

(* rocksdb_transactiondb_put_cf_with_status: v is committed under k. *)
PinnedDbPut ==
    \E k \in Keys, v \in Vals :
        /\ PinReturn("rocksdb_transactiondb_put_cf_with_status", StatusOK,
               rocksdb_transactiondb_put_cf_with_status(
                   EmptyStatus, StatusOK, FreshHeap))
        /\ db' = [db EXCEPT ![k] = v]
        /\ memory' = WriteBlock(memory, k, v, wrappers)
        /\ UNCHANGED <<batch, overlay, wrappers, held>>

(* rocksdb_transaction_put_cf_with_status and rocksdb_transaction_delete_cf_with_status:
   the transaction buffers a write of k. *)
PinnedTxnPut ==
    \E k \in Keys, v \in Vals :
        /\ PinReturn("rocksdb_transaction_put_cf_with_status", StatusOK,
               rocksdb_transaction_put_cf_with_status(
                   EmptyStatus, StatusOK, FreshHeap))
        /\ batch' = [batch EXCEPT ![k] = v]
        /\ UNCHANGED <<db, memory, overlay, wrappers, held>>

PinnedTxnDelete ==
    \E k \in Keys :
        /\ PinReturn("rocksdb_transaction_delete_cf_with_status", StatusOK,
               rocksdb_transaction_delete_cf_with_status(
                   EmptyStatus, StatusOK, FreshHeap))
        /\ batch' = [batch EXCEPT ![k] = Deleted]
        /\ UNCHANGED <<db, memory, overlay, wrappers, held>>

(* rocksdb_transaction_commit_with_status: the write set is committed and the
   next transaction starts with an empty one. *)
PinnedTxnCommit ==
    /\ \E k \in Keys : batch[k] # NoWrite
    /\ PinReturn("rocksdb_transaction_commit_with_status", StatusOK,
           rocksdb_transaction_commit_with_status(
               EmptyStatus, StatusOK, FreshHeap))
    /\ db' = [k \in Keys |->
                IF batch[k] = NoWrite THEN db[k]
                ELSE IF batch[k] = Deleted THEN Absent ELSE batch[k]]
    /\ memory' = ApplyBatch(memory, batch, wrappers)
    /\ batch' = [k \in Keys |-> NoWrite]
    /\ UNCHANGED <<overlay, wrappers, held>>

(* The write-batch overlay.  A put on the batch buffers v under k. *)
OverlayPut ==
    \E k \in Keys, v \in Vals :
        /\ overlay' = [overlay EXCEPT ![k] = v]
        /\ lastCall' = [NoCall EXCEPT !.fn = "put"]
        /\ UNCHANGED <<status, heap, txnVars, memory, batch, wrappers, held,
                       optionVars, ingestVars, openVars>>

(* The lookup that asks the store first: not what the overlay is to do. *)
GetFromDbAndBatch(o, m, k) ==
    IF m.cur[k] # NULL THEN [s |-> StatusOK, rep |-> [block |-> m.cur[k], self |-> ""]]
    ELSE IF o[k] # NoWrite THEN [s |-> StatusOK, rep |-> [block |-> NULL, self |-> o[k]]]
    ELSE [s |-> StatusNotFound, rep |-> NoPin]

(* getFromBatchAndDb(batch, store, options, cf, key): the overlay is looked up
   first, then the store; the buffer comes from the layer that held the
   value. *)
getFromBatchAndDb(o, m, k) ==
    IF o[k] # NoWrite THEN [s |-> StatusOK, rep |-> [block |-> NULL, self |-> o[k]]]
    ELSE IF m.cur[k] # NULL THEN [s |-> StatusOK, rep |-> [block |-> m.cur[k], self |-> ""]]
    ELSE [s |-> StatusNotFound, rep |-> NoPin]

(* The call returns as every pinned read does: the buffer, or null with no
   error set when nothing was found. *)
OverlayGet(k) ==
    LET e == getFromBatchAndDb(overlay, memory, k)
        r == GetPinned(EmptyStatus, e.s, FreshHeap)
        v == Min(WrapAddrs \ DOMAIN wrappers)
    IN  /\ Cardinality(DOMAIN held) < MaxPins
        /\ WrapAddrs \ DOMAIN wrappers # {}
        /\ status' = [status EXCEPT ![1] = r.st.rec]
        /\ heap' = r.st.heap
        /\ lastCall' = Returned("getFromBatchAndDb", 1, e.s, r)
        /\ lastOp' = [NoOp EXCEPT !.fn = "getFromBatchAndDb", !.key = k,
                          !.value = IF r.result = "buffer"
                                    THEN PinnedBytes(e.rep, memory) ELSE "",
                          !.code = r.st.rec.code]
        /\ wrappers' = IF Outlives(r.steps)
                       THEN [a \in DOMAIN wrappers \cup {v} |->
                               IF a = v THEN e.rep ELSE wrappers[a]]
                       ELSE wrappers
        /\ held' = IF r.result = "buffer"
                   THEN [a \in DOMAIN held \cup {v} |->
                           IF a = v
                           THEN [key |-> k,
                                 bytes |-> PinnedBytes(e.rep, memory)]
                           ELSE held[a]]
                   ELSE held
        /\ UNCHANGED <<db, txns, memory, batch, overlay, optionVars,
                       ingestVars, openVars>>

OverlayGetCall == \E k \in Keys : OverlayGet(k)

(* A transaction that deletes k commits: the store loses the key. *)
OverlayDbDelete ==
    \E k \in Keys :
        /\ db[k] # Absent
        /\ PinReturn("rocksdb_transaction_commit_with_status", StatusOK,
               rocksdb_transaction_commit_with_status(
                   EmptyStatus, StatusOK, FreshHeap))
        /\ db' = [db EXCEPT ![k] = Absent]
        /\ memory' = EraseBlock(memory, k, wrappers)
        /\ UNCHANGED <<batch, overlay, wrappers, held>>

OverlayNext ==
    \/ OverlayPut
    \/ OverlayGetCall
    \/ PinnedDbPut
    \/ OverlayDbDelete
    \/ PinnedReleaseCall

PinnedNext ==
    \/ PinnedGetCall
    \/ PinnedReleaseCall
    \/ PinnedDbPut
    \/ PinnedTxnPut
    \/ PinnedTxnDelete
    \/ PinnedTxnCommit

(* Opening a store.  The caller names the column families; the engine, when
   it opens the store, answers one handle per name, in the order of the
   names, and none when it fails. *)

CfNames == {"default", "spog"}

NameLists ==
    {names \in UNION {[1..n -> CfNames] : n \in 0..MaxCfs} :
        \A i, j \in DOMAIN names : names[i] = names[j] => i = j}

EngineHandles(names, s) ==
    IF ok(s) THEN [i \in DOMAIN names |-> [cf |-> names[i]]] ELSE <<>>

NoOpen == [names |-> <<>>, handles |-> <<>>, before |-> <<>>, live |-> {}]

OpenInit ==
    /\ objects = <<>>
    /\ slots = [i \in 1..MaxCfs |-> NULL]
    /\ lastOpen = NoOpen

Open(fn, names, s) ==
    LET handles == EngineHandles(names, s)
        r == OpenBridge(fn, EmptyStatus, s, handles, slots, objects, FreshHeap)
    IN  /\ Cardinality(ObjAddrs \ DOMAIN objects) >= MaxCfs + 1
        /\ status' = [status EXCEPT ![1] = r.st.rec]
        /\ heap' = r.st.heap
        /\ lastCall' = Returned(fn, 1, s, r)
        /\ objects' = r.objs
        /\ slots' = r.array
        /\ lastOpen' = [names |-> names, handles |-> handles,
                        before |-> slots, live |-> DOMAIN objects]
        /\ UNCHANGED <<optionVars, ingestVars, txnVars, pinVars>>

OpenCall ==
    \E fn \in Opens, names \in NameLists,
       s \in {StatusOK, StatusCorruption, StatusInvalidArgument} :
        Open(fn, names, s)

(* The caller closes what it opened: every column-family handle is destroyed
   and every store closed.  The array keeps the addresses it held. *)
CloseAll ==
    /\ objects # <<>>
    /\ objects' = <<>>
    /\ lastCall' = NoCall
    /\ lastOpen' = NoOpen
    /\ UNCHANGED <<status, heap, slots, optionVars, ingestVars, txnVars,
                   pinVars>>

OpenNext == OpenCall \/ CloseAll

----------------------------------------------------------------------------
(* The specifications *)

(* The option records of a caller that sets no bound. *)
OptionsIdle == OptionsInit /\ bytes = [b \in Bufs |-> <<1>>]

Init ==
    /\ StatusInit /\ OptionsIdle /\ IngestInit /\ TxnInit /\ PinnedInit
    /\ OpenInit

Spec == Init /\ [][StatusNext]_vars

OptionsSpecInit ==
    /\ StatusInit /\ OptionsInit /\ IngestInit /\ TxnInit /\ PinnedInit
    /\ OpenInit

SpecOptions == OptionsSpecInit /\ [][OptionsNext]_vars

SpecIngest == Init /\ [][IngestNext]_vars

SpecTxn == Init /\ [][TxnNext]_vars

SpecPinned == Init /\ [][PinnedNext]_vars

SpecOpen == Init /\ [][OpenNext]_vars

SpecForward == Init /\ [][ForwardNext]_vars

SpecOverlay == Init /\ [][OverlayNext]_vars

(* A finite lock timeout is configured: the engine does not leave a call
   waiting forever, it takes the lock when it is free or gives up. *)
SpecLock ==
    Init /\ [][LockNext]_vars
         /\ \A t \in TxnIds : WF_vars(GetForUpdateReturns(t))

----------------------------------------------------------------------------
(* Properties of the status-record convention (checked under Spec) *)

Describes(rec, source) ==
    /\ rec.code = source.code
    /\ rec.subcode = source.subcode
    /\ rec.severity = source.severity
    /\ (rec.string # NULL) <=> ~ok(source)

(* C1: every *_with_status call writes all four fields of the caller's status
   record before it returns, on success, not-found and failure alike, so that
   after the call the record describes that call's engine outcome. *)
C1_EveryCallWritesAllFields ==
    lastCall.fn # "none" =>
        /\ lastCall.written = Fields
        /\ Describes(status[lastCall.ptr], lastCall.source)

(* C2: a pinned read whose engine call answers NotFound returns a null buffer
   and sets no error, and the status record never carries the code NotFound
   after a pinned read. *)
C2_NotFoundNeverInStatusAfterRead ==
    lastCall.fn \in PinnedReads =>
        /\ IsNotFound(lastCall.source) =>
              lastCall.result = "null" /\ lastCall.saves = 0
        /\ status[lastCall.ptr].code # rocksdb_status_code_not_found

(* C3: a pinned read returns a non-null buffer if and only if the engine
   answered Ok; on any answer other than Ok and NotFound it returns null and
   the record holds the engine's code, subcode and severity and a non-null
   message. *)
C3_FailedReadReportsEngineStatus ==
    lastCall.fn \in PinnedReads =>
        /\ (lastCall.result = "buffer") <=> ok(lastCall.source)
        /\ (~ok(lastCall.source) /\ ~IsNotFound(lastCall.source)) =>
              /\ lastCall.result = "null"
              /\ status[lastCall.ptr].code = lastCall.source.code
              /\ status[lastCall.ptr].subcode = lastCall.source.subcode
              /\ status[lastCall.ptr].severity = lastCall.source.severity
              /\ status[lastCall.ptr].string # NULL

C3_Witness ==
    /\ lastCall.fn = "rocksdb_transaction_get_for_update_pinned_cf_with_status"
    /\ lastCall.source = StatusNoSpace
    /\ lastCall.result = "null"
    /\ status[lastCall.ptr].subcode = rocksdb_status_subcode_no_space

(* C4: when SaveStatus records an Ok outcome the record is code ok (0),
   subcode none (0), severity none (0) with a null message; SaveStatus returns
   true exactly when the outcome is not Ok. *)
C4_SaveStatusOkIsEmpty ==
    lastCall.saves > 0 =>
        /\ ok(lastCall.source) =>
              /\ status[lastCall.ptr].code = 0
              /\ status[lastCall.ptr].subcode = 0
              /\ status[lastCall.ptr].severity = 0
              /\ status[lastCall.ptr].string = NULL
        /\ lastCall.ret <=> ~ok(lastCall.source)

(* An Ok outcome saved into a record while another record still holds a
   failure's message. *)
C4_Witness ==
    /\ lastCall.saves > 0
    /\ ok(lastCall.source)
    /\ ~lastCall.ret
    /\ \E q \in StatusPtrs : status[q].string # NULL

NulTerminated(str) ==
    /\ Len(str) >= 1
    /\ str[Len(str)] = NUL
    /\ \A i \in 1..(Len(str) - 1) : str[i] # NUL

(* C5: in every status record the message is non-null if and only if the code
   is not Ok; a non-null message is a live allocation of its own, holding a
   NUL-terminated copy of the engine's message, and no two records share one,
   so that it stays valid when the engine status is gone and when another
   record's message is freed. *)
C5_MessageIsOwnedCopy ==
    /\ \A p \in StatusPtrs :
          /\ (status[p].string # NULL) <=>
                (status[p].code # rocksdb_status_code_ok)
          /\ status[p].string # NULL =>
                /\ status[p].string \in DOMAIN heap
                /\ NulTerminated(heap[status[p].string])
                /\ \A q \in StatusPtrs \ {p} :
                      status[q].string # status[p].string
    /\ (lastCall.saves > 0 /\ ~ok(lastCall.source)) =>
          /\ status[lastCall.ptr].string \in DOMAIN heap
          /\ heap[status[lastCall.ptr].string] = lastCall.source.text \o <<NUL>>

(* Two records hold messages at once. *)
C5_Witness ==
    \E p, q \in StatusPtrs :
        /\ p # q
        /\ status[p].string # NULL
        /\ status[q].string # NULL
        /\ status[p].string \in DOMAIN heap
        /\ status[q].string \in DOMAIN heap

----------------------------------------------------------------------------
(* Properties of read-option copies (checked under SpecOptions) *)

IsCopy(c) == Live(c) /\ atCopy[c].src # 0

(* C6: after copy = rocksdb_readoptions_create_copy(source), overwriting the
   caller bytes that the source's bounds borrow leaves the bytes of the copy's
   bounds unchanged, for each of upper bound, lower bound, timestamp and
   iteration start timestamp. *)
C6_CopyBytesUnchanged ==
    \A c \in OptPtrs : IsCopy(c) =>
        \A f \in BoundFields : SliceBytes(ropts[c][f]) = atCopy[c].content[f]

(* C7: the copy references nothing owned by the source: whatever happens to the
   source afterwards (destroyed, or its bounds set anew), every bound the
   copy's engine options point to is still live and is the Slice it was at
   copy time. *)
C7_CopyIndependentOfSource ==
    \A c \in OptPtrs : IsCopy(c) =>
        \A f \in BoundFields :
            LET p == ropts[c].rep[RepField(f)]
            IN  p # NullPtr =>
                    /\ ropts[p.obj].state = "live"
                    /\ Deref(p) = atCopy[c].slice[f]

----------------------------------------------------------------------------
(* Properties of the ingest call (checked under SpecIngest) *)

(* C8: for a list of n triples the one request handed to the engine has exactly
   n groups; group i carries the column family and the options of list[i] and
   exactly external_files_len paths, equal to list[i].external_files[0..len-1]
   in the same order. *)
C8_RequestMirrorsList ==
    lastIngest.called =>
        /\ Len(lastIngest.args) = lastIngest.list_len
        /\ \A i \in 1..lastIngest.list_len :
              LET g == lastIngest.args[i]
                  arg == lastIngest.list[i]
              IN  /\ g.column_family = CfRep(arg.column_family)
                  /\ g.options = IngestOptionsRep(arg.options)
                  /\ Len(g.external_files) = arg.external_files_len
                  /\ \A j \in 1..arg.external_files_len :
                        g.external_files[j] \o <<NUL>> = arg.external_files[j]

(* A call with two groups of two files each, in opposite orders. *)
C8_Witness ==
    /\ lastIngest.called
    /\ lastIngest.list_len = 2
    /\ lastIngest.list[1].external_files = <<PathA, PathB>>
    /\ lastIngest.list[1].external_files_len = 2
    /\ lastIngest.list[2].external_files = <<PathB, PathA>>
    /\ lastIngest.list[2].external_files_len = 2
    /\ lastIngest.list[1].column_family # lastIngest.list[2].column_family

CallerFiles(arg) ==
    {<<CfRep(arg.column_family), StdString(arg.external_files[j])>> :
        j \in 1..arg.external_files_len}

(* C9: a call with N triples either applies all N groups and reports Ok, or
   applies none and reports a failure; when a triple is invalid (an empty file
   list) the call fails and no file of any other triple is ingested. *)
C9_AllOrNothing ==
    lastIngest.called =>
        LET all == UNION {CallerFiles(lastIngest.list[i]) :
                            i \in 1..lastIngest.list_len}
            reported == status[lastCall.ptr].code
        IN  /\ \/ /\ reported = rocksdb_status_code_ok
                  /\ ingested = lastIngest.before \cup all
               \/ /\ reported # rocksdb_status_code_ok
                  /\ ingested = lastIngest.before
            /\ (\E i \in 1..lastIngest.list_len :
                    lastIngest.list[i].external_files_len = 0) =>
                  /\ reported # rocksdb_status_code_ok
                  /\ ingested = lastIngest.before

(* A call with one valid and one empty triple, the valid one's files not yet
   in the store. *)
C9_Witness ==
    /\ lastIngest.called
    /\ lastIngest.list_len = 2
    /\ lastIngest.list[1].external_files_len = 2
    /\ lastIngest.list[2].external_files_len = 0
    /\ CallerFiles(lastIngest.list[1]) \cap lastIngest.before = {}
    /\ status[lastCall.ptr].code = rocksdb_status_code_invalid_argument

(* What a pinned get hands back for a stored value: its bytes, or no buffer. *)
Seen(val) == IF val \in Vals THEN val ELSE ""

(* The last call was a pinned get through a transaction that has not ended. *)
TxnGot ==
    /\ lastOp.fn = "rocksdb_transaction_get_pinned_cf_with_status"
    /\ Active(lastOp.txn)

(* t's put of the key last read has succeeded and t has not ended. *)
PutPending(t) == Active(t) /\ txns[t].writes[lastOp.key] \in Vals

(* t's put of the key last read is committed, and is the latest committed
   write of that key. *)
PutCommitted(t) ==
    txns[t].state = "committed" /\ txns[t].writes[lastOp.key] \in Vals

(* C10 as stated: after a successful put(txn, k, v) on an active transaction,
   a pinned get of k on txn returns v before commit; a pinned get of k
   through any other transaction returns the value k had before txn began
   (not-found if none) until txn commits, and v once txn has committed. *)
C10_OthersSeeValueBeforeBegin ==
    TxnGot =>
        /\ PutPending(lastOp.txn) =>
               lastOp.value = txns[lastOp.txn].writes[lastOp.key]
        /\ \A t \in TxnIds \ {lastOp.txn} :
               /\ PutPending(t) =>
                      /\ lastOp.code = rocksdb_status_code_ok
                      /\ lastOp.value = Seen(txns[t].began[lastOp.key])
               /\ PutCommitted(t) /\ txns[lastOp.txn].writes[lastOp.key] = NoWrite
                      => lastOp.value = txns[t].writes[lastOp.key]

(* C10, amended: after a successful put(txn, k, v) on an active transaction,
   a pinned get of k on txn returns v before commit; a pinned get of k
   through any other transaction returns the committed value k had when txn
   locked k for the put (not-found if none; it is the latest committed value,
   which another writer may have committed after txn began) until txn
   commits; once txn has committed, and until k is written again, it returns
   v unless the reading transaction has buffered its own write of k. *)
C10_ReadYourWriteAndIsolation ==
    TxnGot =>
        /\ PutPending(lastOp.txn) =>
               lastOp.value = txns[lastOp.txn].writes[lastOp.key]
        /\ \A t \in TxnIds \ {lastOp.txn} :
               /\ PutPending(t) =>
                      /\ lastOp.code = rocksdb_status_code_ok
                      /\ lastOp.value = Seen(txns[t].locked[lastOp.key])
               /\ PutCommitted(t) /\ txns[lastOp.txn].writes[lastOp.key] = NoWrite
                      => lastOp.value = txns[t].writes[lastOp.key]

(* Another transaction reads k while txn's put is pending, and k's committed
   value is one that was committed after txn began. *)
C10_Witness ==
    /\ TxnGot
    /\ \E t \in TxnIds \ {lastOp.txn} :
           /\ PutPending(t)
           /\ txns[t].began[lastOp.key] # txns[t].locked[lastOp.key]
           /\ lastOp.value = txns[t].locked[lastOp.key]
           /\ lastOp.value # txns[t].writes[lastOp.key]

(* The transaction reading in the last call has not ended and has buffered no
   write of the key it read. *)
FreshRead ==
    /\ TxnGot
    /\ txns[lastOp.txn].writes[lastOp.key] = NoWrite

(* C11: once commit has reported Ok on a transaction, a read of a key it
   wrote, through another transaction, observes the transaction's last
   buffered value for the key (nothing for a deleted key); once rollback has
   reported Ok, such a read observes the value the key had before the
   transaction's writes. *)
C11_CommitAppliesRollbackDiscards ==
    FreshRead =>
        \A t \in TxnIds \ {lastOp.txn} :
            /\ txns[t].told = "committed" /\ txns[t].writes[lastOp.key] # NoWrite
                   => /\ lastOp.code = rocksdb_status_code_ok
                      /\ lastOp.value = Seen(txns[t].writes[lastOp.key])
            /\ txns[t].told = "rolledback" /\ lastOp.key \in txns[t].undone
                   => /\ lastOp.code = rocksdb_status_code_ok
                      /\ lastOp.value = Seen(txns[t].locked[lastOp.key])

(* A transaction put a value over another and rolled back; the first call of
   a transaction begun afterwards reads the key and finds the earlier value. *)
C11_Witness ==
    /\ FreshRead
    /\ lastOp.first
    /\ \E t \in TxnIds \ {lastOp.txn} :
           /\ txns[t].told = "rolledback"
           /\ lastOp.key \in txns[t].undone
           /\ txns[t].locked[lastOp.key] \in Vals
           /\ lastOp.value = txns[t].locked[lastOp.key]

(* A transaction deleted a key and committed; the first call of a transaction
   begun afterwards reads the key and finds nothing. *)
C11_CommittedCase ==
    /\ FreshRead
    /\ lastOp.first
    /\ \E t \in TxnIds \ {lastOp.txn} :
           /\ txns[t].told = "committed"
           /\ txns[t].writes[lastOp.key] = Deleted
           /\ lastOp.value = ""

(* The calls on a transaction handle. *)
TxnCalls ==
    {"rocksdb_transaction_get_pinned_cf_with_status",
     "rocksdb_transaction_get_for_update_pinned_cf_with_status",
     "rocksdb_transaction_put_cf_with_status",
     "rocksdb_transaction_delete_cf_with_status",
     "rocksdb_transaction_commit_with_status",
     "rocksdb_transaction_rollback_with_status"}

(* The step is a call on the handle t. *)
CalledOn(t) == lastOp'.txn = t /\ lastOp'.fn \in TxnCalls

(* C12: a handle's state moves only from Active to Committed or RolledBack
   (and to and from nothing by begin and destroy); every call on a handle
   that is Committed or RolledBack reports a failure, returns no buffer, and
   changes neither the committed store nor any transaction. *)
C12_TerminalHandlesRejectCalls ==
    [][\A t \in TxnIds :
          /\ txns'[t].state # txns[t].state =>
                 \/ txns[t].state = "none" /\ txns'[t].state = "active"
                 \/ txns[t].state = "active" /\ Terminal(t)'
                 \/ Terminal(t) /\ txns'[t].state = "destroyed"
          /\ Terminal(t) /\ CalledOn(t) =>
                 /\ lastOp'.code # rocksdb_status_code_ok
                 /\ status'[1].code # rocksdb_status_code_ok
                 /\ lastOp'.value = ""
                 /\ db' = db
                 /\ txns' = txns]_vars

(* Rollback has been called on a committed handle and has reported a
   failure; the handle is still committed. *)
C12_Witness ==
    /\ lastOp.fn = "rocksdb_transaction_rollback_with_status"
    /\ lastOp.txn \in TxnIds
    /\ txns[lastOp.txn].state = "committed"
    /\ txns[lastOp.txn].told = "committed"
    /\ lastOp.code = rocksdb_status_code_invalid_argument
    /\ status[1].string # NULL

(* The last call was a get-for-update that returned while another live
   transaction held the key's lock. *)
ReturnedWhileLocked ==
    /\ lastOp.fn = "rocksdb_transaction_get_for_update_pinned_cf_with_status"
    /\ lastOp.txn \in TxnIds
    /\ Active(lastOp.txn)
    /\ LockedByOther(lastOp.txn, lastOp.key)

(* The status record classifies a lock failure. *)
LockClassified(rec) ==
    \/ rec.code = rocksdb_status_code_busy
    \/ /\ rec.code = rocksdb_status_code_timed_out
       /\ rec.subcode = rocksdb_status_subcode_lock_timeout
    \/ rec.subcode = rocksdb_status_subcode_deadlock

(* C13: with a finite lock timeout, a get-for-update on a key whose lock
   another active transaction holds always returns, and what it returns while
   the lock is held is a null buffer with a status classified Busy,
   TimedOut/LockTimeout or Deadlock, never a buffer. *)
C13_LockedGetForUpdateFails ==
    /\ [](ReturnedWhileLocked =>
              /\ lastCall.result = "null"
              /\ lastOp.value = ""
              /\ LockClassified(status[1]))
    /\ \A t \in TxnIds : []<>(~Waiting(t))

(* A get-for-update has waited for a lock that was not released, and has
   returned a null buffer and a lock timeout. *)
C13_Witness ==
    /\ ReturnedWhileLocked
    /\ lastCall.result = "null"
    /\ status[1].code = rocksdb_status_code_timed_out
    /\ status[1].subcode = rocksdb_status_subcode_lock_timeout
    /\ status[1].string # NULL


----------------------------------------------------------------------------
(* Pinned buffers *)

(* A buffer the caller holds shows the bytes the read was to yield. *)
HeldIntact ==
    \A a \in DOMAIN held :
        /\ a \in DOMAIN wrappers
        /\ held[a].bytes \in Vals
        /\ PinnedBytes(wrappers[a], memory) = held[a].bytes

Released ==
    /\ lastCall'.fn = "rocksdb_pinnableslice_destroy"
    /\ held' # held

SameReads ==
    \A fn \in PinnedReads, k \in Keys :
        ReadNow(fn, k, memory', batch') = ReadNow(fn, k, memory, batch)

(* C14: a buffer a pinned read returned shows the value committed last under
   the key when the read was made, or, read through a transaction, the value
   that transaction buffered last; it shows the same bytes for as long as the
   caller holds it, whatever is written or deleted meanwhile; and releasing a
   buffer leaves what any read of any key answers as it was. *)
C14_PinnedBytesStable == []HeldIntact /\ [][Released => SameReads]_vars

(* A buffer has just been released while another, which pins a block of the
   store, is still held and shows a value that has been overwritten or
   deleted since. *)
C14_Witness ==
    /\ lastCall.fn = "rocksdb_pinnableslice_destroy"
    /\ \E a \in DOMAIN held \cap DOMAIN wrappers :
        /\ wrappers[a].block # NULL
        /\ db[held[a].key] # held[a].bytes

----------------------------------------------------------------------------
(* The write-batch overlay *)

OverlayRead == lastCall.fn = "getFromBatchAndDb"

(* The bytes the caller reads through the buffer the lookup returned *)
OverlayResult ==
    IF lastCall.result = "buffer" THEN lastOp.value ELSE "not found"

InOverlay(k) == overlay[k] # NoWrite
InStore(k) == db[k] # Absent

OverlayPrecedence ==
    OverlayRead =>
        /\ InOverlay(lastOp.key) => OverlayResult = overlay[lastOp.key]
        /\ ~InOverlay(lastOp.key) /\ InStore(lastOp.key)
              => OverlayResult = db[lastOp.key]
        /\ ~InOverlay(lastOp.key) /\ ~InStore(lastOp.key)
              => /\ lastCall.result = "null"
                 /\ lastCall.saves = 0
                 /\ status[1] = EmptyStatus

(* C15: getFromBatchAndDb returns the overlay's value when the key is in the
   overlay and in the store, the value of the layer that holds the key when
   only one does, and null with no error set when neither does; and the
   lookup leaves the store as it was. *)
C15_OverlayTakesPrecedence ==
    /\ []OverlayPrecedence
    /\ [][lastCall'.fn = "getFromBatchAndDb" /\ lastCall' # lastCall
            => db' = db /\ memory' = memory]_vars

(* A lookup has just returned the overlay's value for a key whose committed
   value differs. *)
C15_Witness ==
    /\ OverlayRead
    /\ InOverlay(lastOp.key) /\ InStore(lastOp.key)
    /\ db[lastOp.key] # overlay[lastOp.key]
    /\ lastOp.value = overlay[lastOp.key]

----------------------------------------------------------------------------
(* Forwarding *)

Reports(rec, s) ==
    /\ rec.code = s.code
    /\ rec.subcode = s.subcode
    /\ rec.severity = s.severity

Checkpointed ==
    lastCall.fn = "rocksdb_transactiondb_create_checkpoint_with_status"

(* C16: each of put, delete, commit, rollback, flush, compact-range, ingest,
   sst-writer open, put and finish, and iterator status calls its engine
   operation exactly once and leaves that call's code, subcode and severity
   in the status record; the checkpoint call builds the checkpoint object
   once, calls CreateCheckpoint at most once and only when the object was
   built, and leaves in the record the outcome of the first step that failed,
   or of CreateCheckpoint when none did. *)
C16_OneEngineCallForwarded ==
    /\ lastCall.fn \in EngineCalls =>
          /\ Count(lastCall.steps, "engine") = 1
          /\ lastCall.saves = 1
          /\ Reports(status[lastCall.ptr], lastCall.answers[1])
    /\ Checkpointed =>
          /\ Count(lastCall.steps, "Create") = 1
          /\ Count(lastCall.steps, "CreateCheckpoint") =
                IF ok(lastCall.answers[1]) THEN 1 ELSE 0
          /\ lastCall.saves = 1
          /\ Reports(status[lastCall.ptr],
                     IF ok(lastCall.answers[1]) THEN lastCall.answers[2]
                     ELSE lastCall.answers[1])

(* A checkpoint call whose object could not be built has returned with that
   failure in the record, although CreateCheckpoint would have succeeded. *)
C16_Witness ==
    /\ Checkpointed
    /\ lastCall.answers = <<StatusCorruption, StatusOK>>
    /\ lastCall.steps = <<"Create", "SaveStatus">>
    /\ status[lastCall.ptr].code = rocksdb_status_code_corruption

----------------------------------------------------------------------------
(* Wrapper accounting *)

Precedes(steps, first, second) ==
    \A i, j \in DOMAIN steps :
        steps[i] = first /\ steps[j] = second => i < j

(* C17: every pinned read makes exactly one wrapper; when the engine answers
   Ok the wrapper is returned and not deleted; on any other answer it is
   deleted exactly once, before SaveStatus writes the record, and null is
   returned; and the live wrappers are exactly the buffers the caller was
   given and has not released. *)
C17_WrappersAccounted ==
    /\ lastCall.fn \in PinnedReads =>
          /\ Count(lastCall.steps, "new") = 1
          /\ ok(lastCall.source) =>
                /\ lastCall.result = "buffer"
                /\ Count(lastCall.steps, "delete") = 0
          /\ ~ok(lastCall.source) =>
                /\ lastCall.result = "null"
                /\ Count(lastCall.steps, "delete") = 1
                /\ Precedes(lastCall.steps, "delete", "SaveStatus")
    /\ DOMAIN wrappers = DOMAIN held
    /\ Cardinality(DOMAIN wrappers) = Cardinality(DOMAIN held)

(* A read has just failed, its wrapper deleted before the failure was
   recorded, while the caller holds the buffer of an earlier read. *)
C17_Witness ==
    /\ lastCall.fn \in PinnedReads
    /\ lastCall.steps = <<"new", "engine", "delete", "SaveStatus">>
    /\ status[1].code = rocksdb_status_code_corruption
    /\ Cardinality(DOMAIN held) = 1
    /\ Cardinality(DOMAIN wrappers) = 1

----------------------------------------------------------------------------
(* Opening a store *)

Opened == lastCall.fn \in Opens

NewObjects == DOMAIN objects \ lastOpen.live

(* C18: an open call whose engine open failed returns null, leaves the
   failure in the status record, makes no object and leaves every slot of the
   caller's array as it was; one whose engine open succeeded returns a new
   store handle with an Ok record and puts in slot i a new wrapper of the
   engine's handle for the i-th requested name, one wrapper per handle, the
   other slots left as they were. *)
C18_OpenFillsHandlesInOrder ==
    Opened =>
        IF ~ok(lastCall.source)
        THEN /\ lastCall.result = NULL
             /\ Reports(status[1], lastCall.source)
             /\ status[1].string # NULL
             /\ NewObjects = {}
             /\ slots = lastOpen.before
        ELSE /\ lastCall.result \in NewObjects
             /\ objects[lastCall.result].kind = "db"
             /\ status[1] = EmptyStatus
             /\ \A i \in DOMAIN lastOpen.names :
                    /\ slots[i] \in NewObjects
                    /\ objects[slots[i]] =
                          [kind |-> "cf", rep |-> [cf |-> lastOpen.names[i]]]
                    /\ \A j \in DOMAIN lastOpen.names :
                          slots[i] = slots[j] => i = j
             /\ \A i \in DOMAIN slots \ DOMAIN lastOpen.names :
                    slots[i] = lastOpen.before[i]
             /\ Cardinality(NewObjects) = Len(lastOpen.handles) + 1

(* A store has just been opened with two column families while another is
   open, so that the new wrappers are not the first addresses. *)
C18_Witness ==
    /\ Opened
    /\ ok(lastCall.source)
    /\ Len(lastOpen.names) = 2
    /\ lastOpen.live # {}
    /\ lastOpen.before # slots

(* An open has just failed and the array still holds what an earlier open put
   there. *)
C18_FailedOpenCase ==
    /\ Opened
    /\ ~ok(lastCall.source)
    /\ \E i \in DOMAIN slots : slots[i] # NULL

====
